---- MODULE Spec2Model ----
(***************************************************************************)
(* Model of the in-memory cell-data model of tiledb-rs                     *)
(* (test-utils/cells/src/lib.rs): Cells, its row algorithms (sort, group,  *)
(* dedup, count-distinct) and StructuredCells::slice.                      *)
(*                                                                         *)
(* A Cells value is a function from field names to columns; a column is a  *)
(* sequence of values.  Row indices are 0-based as in the source, so row i *)
(* of column col is col[i + 1].                                            *)
(***************************************************************************)
EXTENDS Integers, Sequences, FiniteSets, TLC

\* ------------------------------------------------------------- bounds
\* largest row count of a Cells drawn in Init
MaxLen == 3
\* column values are drawn from 0..MaxVal
MaxVal == 1
\* longest key list passed to an operation
MaxKeys == 2
\* largest number of dimensions of a StructuredCells
MaxDims == 3
\* largest extent of one dimension
MaxExtent == 3
\* largest row count of a StructuredCells
MaxRows == 8
\* largest row count of a StructuredCells whose slices are sliced again
MaxResliceRows == 4

FieldNames == {"x", "y"}
Values == 0..MaxVal

VARIABLES
    cells,      \* the receiver: field name -> column
    op,         \* the operation that ran last
    keys,       \* the key list it was given
    before,     \* the receiver as it was when the operation started
    out,        \* what the operation returned
    dimensions, \* StructuredCells::dimensions of the receiver
    slices,     \* the ranges given to StructuredCells::slice
    arg         \* the other argument of the operation, when it has one

vars == <<cells, op, keys, before, out, dimensions, slices, arg>>

\* ------------------------------------------------------------ helpers
\* Option / panic encodings of return values
None == [tag |-> "None"]
Some(v) == [tag |-> "Some", val |-> v]
Ok(v) == [tag |-> "Ok", val |-> v]
Panic == [tag |-> "Panic"]

\* data[i] for a 0-based row index
At(col, i) == col[i + 1]

\* all sequences over S of length 0..n
SeqsUpTo(S, n) == UNION {[1..k -> S] : k \in 0..n}

\* BitsOrd::bits_cmp / BitsEq::bits_ne of tiledb_common for the integer
\* physical types: the ordering and equality of the bit patterns
bits_cmp(a, b) == IF a < b THEN "Less" ELSE IF a > b THEN "Greater" ELSE "Equal"
bits_ne(a, b) == a # b

\* ------------------------------------------------------------- Cells
\* a check that compares is_empty() of the fields where the code compares len()
new_ok_same_emptiness(fields) ==
    \A f, g \in DOMAIN fields : (Len(fields[f]) = 0) = (Len(fields[g]) = 0)

\* Cells::new: all fields have one length (the assert_eq! of the loop)
new_ok(fields) == \A f, g \in DOMAIN fields : Len(fields[f]) = Len(fields[g])

\* Cells::len: the length of the first field the map yields
len(c) == Len(c[CHOOSE f \in DOMAIN c : TRUE])

is_empty(c) == len(c) = 0

\* a comparator in which the last key that differs decides
RECURSIVE index_comparator_last_key(_, _, _, _)
index_comparator_last_key(c, ks, l, r) ==
    IF ks = <<>> THEN "Equal"
    ELSE LET rest == index_comparator_last_key(c, Tail(ks), l, r)
         IN IF rest = "Equal"
            THEN bits_cmp(At(c[Head(ks)], l), At(c[Head(ks)], r))
            ELSE rest

\* Cells::index_comparator: key by key, the first key that differs decides
RECURSIVE index_comparator(_, _, _, _)
index_comparator(c, ks, l, r) ==
    IF ks = <<>> THEN "Equal"
    ELSE LET o == bits_cmp(At(c[Head(ks)], l), At(c[Head(ks)], r))
         IN IF o = "Equal" THEN index_comparator(c, Tail(ks), l, r) ELSE o

\* Cells::is_sorted
is_sorted(c, ks) ==
    \A i \in 1..(len(c) - 1) : index_comparator(c, ks, i - 1, i) # "Greater"

\* the stable insertion of row i into the sorted index list s: behind every
\* element that does not compare Greater than it
insert_stable(c, ks, s, i) ==
    LET k == Cardinality({p \in 1..Len(s) : index_comparator(c, ks, s[p], i) # "Greater"})
    IN SubSeq(s, 1, k) \o <<i>> \o SubSeq(s, k + 1, Len(s))

\* the insertion of row i in front of the elements it ties with
insert_before_ties(c, ks, s, i) ==
    LET k == Cardinality({p \in 1..Len(s) : index_comparator(c, ks, s[p], i) = "Less"})
    IN SubSeq(s, 1, k) \o <<i>> \o SubSeq(s, k + 1, Len(s))

\* a sort that orders by the comparator but puts tied rows in reverse order
RECURSIVE sort_by_ties_reversed(_, _, _)
sort_by_ties_reversed(c, ks, n) ==
    IF n = 0 THEN <<>>
    ELSE insert_before_ties(c, ks, sort_by_ties_reversed(c, ks, n - 1), n - 1)

\* a sort that looks at the first key only
RECURSIVE sort_by_first_key(_, _, _)
sort_by_first_key(c, ks, n) ==
    IF n = 0 THEN <<>>
    ELSE insert_stable(c, IF ks = <<>> THEN ks ELSE <<Head(ks)>>,
                       sort_by_first_key(c, ks, n - 1), n - 1)

\* idx = [0, n) followed by idx.sort_by(index_comparator): the standard
\* library's stable sort, as the insertion of the rows 0, 1, .. n-1 in turn,
\* each behind the rows that compare Less or Equal to it.
RECURSIVE sort_by(_, _, _)
sort_by(c, ks, n) ==
    IF n = 0 THEN <<>>
    ELSE insert_stable(c, ks, sort_by(c, ks, n - 1), n - 1)

\* the permutation applied to the key fields only
sort_keys_only(c, ks) ==
    LET idx == sort_by(c, ks, len(c))
    IN [f \in DOMAIN c |->
          IF \E k \in 1..Len(ks) : ks[k] = f
          THEN [i \in 1..Len(c[f]) |-> At(c[f], idx[i])]
          ELSE c[f]]

\* Cells::sort: data[i] = unsorted[idx[i]] for every field
sort(c, ks) ==
    LET idx == sort_by(c, ks, len(c))
    IN [f \in DOMAIN c |-> [i \in 1..Len(c[f]) |-> At(c[f], At(idx, i - 1))]]

\* Cells::sorted: clone, then sort
sorted(c, ks) == sort(c, ks)

\* keys.iter().any(|k| cells[i].bits_ne(&cells[j]))
distinct(c, ks, i, j) ==
    \E k \in 1..Len(ks) : bits_ne(At(c[ks[k]], i), At(c[ks[k]], j))

\* the boundaries pushed by the loop of identify_groups from row i on,
\* never moving the row compared against
RECURSIVE groups_from_fixed_icmp(_, _, _, _)
groups_from_fixed_icmp(c, ks, i, icmp) ==
    IF i >= len(c) THEN <<>>
    ELSE IF distinct(c, ks, i, icmp)
         THEN <<i>> \o groups_from_fixed_icmp(c, ks, i + 1, icmp)
         ELSE groups_from_fixed_icmp(c, ks, i + 1, icmp)

\* the loop of identify_groups: `for i in 1..self.len()` from row i on, with
\* icmp the first row of the current group
RECURSIVE groups_from(_, _, _, _)
groups_from(c, ks, i, icmp) ==
    IF i >= len(c) THEN <<>>
    ELSE IF distinct(c, ks, i, icmp)
         THEN <<i>> \o groups_from(c, ks, i + 1, i)
         ELSE groups_from(c, ks, i + 1, icmp)

\* identify_groups without the closing boundary
identify_groups_open(c, ks) ==
    IF is_empty(c) THEN None
    ELSE Some(<<0>> \o groups_from(c, ks, 1, 0))

\* Cells::identify_groups
identify_groups(c, ks) ==
    IF is_empty(c) THEN None
    ELSE Some(<<0>> \o groups_from(c, ks, 1, 0) \o <<len(c)>>)

\* a counting loop that counts every row after the first
RECURSIVE count_from_every_row(_, _, _, _)
count_from_every_row(kc, ks, i, icmp) ==
    IF i >= len(kc) THEN 0
    ELSE 1 + count_from_every_row(kc, ks, i + 1, i)

\* the counting loop of count_distinct over key_cells from row i on
RECURSIVE count_from(_, _, _, _)
count_from(kc, ks, i, icmp) ==
    IF i >= len(kc) THEN 0
    ELSE IF distinct(kc, ks, i, icmp)
         THEN 1 + count_from(kc, ks, i + 1, i)
         ELSE count_from(kc, ks, i + 1, icmp)

\* the fields of c that `keys.contains(k)` keeps
key_fields(c, ks) ==
    [f \in {g \in DOMAIN c : \E k \in 1..Len(ks) : ks[k] = g} |-> c[f]]

\* count_distinct counting the runs of the rows as they stand, unsorted
count_distinct_unsorted(c, ks) ==
    IF len(c) <= 1 THEN Ok(len(c))
    ELSE LET kf == key_fields(c, ks)
         IN IF DOMAIN kf = {} THEN Panic
            ELSE Ok(1 + count_from(kf, ks, 1, 0))

\* Cells::count_distinct.  Cells::new accepts the projection on the key
\* fields even when it has no field; sorted() then calls len(), whose
\* `values().next().unwrap()` panics on a Cells without fields.
count_distinct(c, ks) ==
    IF len(c) <= 1 THEN Ok(len(c))
    ELSE LET kf == key_fields(c, ks)
         IN IF DOMAIN kf = {} THEN Panic
            ELSE Ok(1 + count_from(sorted(kf, ks), ks, 1, 0))

\* FieldData::filter: the rows whose bit is set, in their original order
RECURSIVE field_filter(_, _, _)
field_filter(col, set, i) ==
    IF i >= Len(col) THEN <<>>
    ELSE IF i \in set
         THEN <<At(col, i)>> \o field_filter(col, set, i + 1)
         ELSE field_filter(col, set, i + 1)

\* filter that keeps the rows whose bit is clear
filter_complement(c, set) ==
    [f \in DOMAIN c |-> field_filter(c[f], (0..Len(c[f])) \ set, 0)]

\* Cells::filter
filter(c, set) == [f \in DOMAIN c |-> field_filter(c[f], set, 0)]

\* the loop of dedup comparing every row with the first sorted row only
RECURSIVE preserve_from_fixed_icmp(_, _, _, _, _)
preserve_from_fixed_icmp(c, ks, idx, i, icmp) ==
    IF i >= Len(idx) THEN {}
    ELSE IF distinct(c, ks, At(idx, i), At(idx, 0))
         THEN {At(idx, i)} \cup preserve_from_fixed_icmp(c, ks, idx, i + 1, 0)
         ELSE preserve_from_fixed_icmp(c, ks, idx, i + 1, 0)

\* the loop of dedup over the sorted indices: the original indices preserved
\* from position i on
RECURSIVE preserve_from(_, _, _, _, _)
preserve_from(c, ks, idx, i, icmp) ==
    IF i >= Len(idx) THEN {}
    ELSE IF distinct(c, ks, At(idx, i), At(idx, icmp))
         THEN {At(idx, i)} \cup preserve_from(c, ks, idx, i + 1, i)
         ELSE preserve_from(c, ks, idx, i + 1, icmp)

\* dedup keeping the last row of every sorted run instead of the first
dedup_keep_last(c, ks) ==
    IF is_empty(c) THEN c
    ELSE LET idx == sort_by(c, ks, len(c))
             n == Len(idx)
             preserve == {At(idx, i) : i \in {j \in 0..(n - 1) :
                            j = n - 1 \/ distinct(c, ks, At(idx, j + 1), At(idx, j))}}
         IN filter(c, preserve)

\* dedup comparing each row with its predecessor in the ORIGINAL order
dedup_adjacent(c, ks) ==
    IF is_empty(c) THEN c
    ELSE filter(c, {0} \cup {i \in 1..(len(c) - 1) : distinct(c, ks, i, i - 1)})

\* Cells::dedup
dedup(c, ks) ==
    IF is_empty(c) THEN c
    ELSE LET idx == sort_by(c, ks, len(c))
             preserve == {At(idx, 0)} \cup preserve_from(c, ks, idx, 1, 0)
         IN filter(c, preserve)

\* ---------------------------------------------------- StructuredCells
\* a Range<usize>
Range(a, b) == [start |-> a, end |-> b]

\* Range::is_empty and Range::len
range_is_empty(r) == r.start >= r.end
range_len(r) == IF r.start >= r.end THEN 0 ELSE r.end - r.start

\* dimensions.iter().product()
RECURSIVE product(_)
product(ds) == IF ds = <<>> THEN 1 ELSE Head(ds) * product(Tail(ds))

\* StructuredCells::new: the assert_eq! on the number of cells
structured_new_ok(ds, c) == product(ds) = len(c)

\* NextIndex::new without the test for an empty range
next_index_new_unchecked(ranges) ==
    Some([d \in 1..Len(ranges) |-> ranges[d].start])

\* NextIndex::new: no cursors when some range is empty, else the range starts
next_index_new(ranges) ==
    IF \E d \in 1..Len(ranges) : range_is_empty(ranges[d])
    THEN None
    ELSE Some([d \in 1..Len(ranges) |-> ranges[d].start])

\* NextIndex::compute from dimension position d (1-based) down to the first,
\* with the running scale
RECURSIVE compute_from(_, _, _, _)
compute_from(ds, cursors, d, scale) ==
    IF d = 0 THEN 0
    ELSE cursors[d] * scale + compute_from(ds, cursors, d - 1, scale * ds[d])

\* compute with the first dimension varying fastest
RECURSIVE compute_column_major(_, _, _, _)
compute_column_major(ds, cursors, d, scale) ==
    IF d > Len(ds) THEN 0
    ELSE cursors[d] * scale + compute_column_major(ds, cursors, d + 1, scale * ds[d])

compute_first_fastest(ds, cursors) == compute_column_major(ds, cursors, 1, 1)

\* NextIndex::compute: the last dimension has scale 1
compute(ds, cursors) == compute_from(ds, cursors, Len(ds), 1)

\* the loop of NextIndex::advance from dimension position d down to the first
RECURSIVE advance_from(_, _, _)
advance_from(ranges, cursors, d) ==
    IF d = 0 THEN None
    ELSE IF cursors[d] + 1 < ranges[d].end
         THEN Some([cursors EXCEPT ![d] = cursors[d] + 1])
         ELSE advance_from(ranges, [cursors EXCEPT ![d] = ranges[d].start], d - 1)

\* advance that carries into the next dimension without resetting the cursor
RECURSIVE advance_no_reset_from(_, _, _)
advance_no_reset_from(ranges, cursors, d) ==
    IF d = 0 THEN None
    ELSE IF cursors[d] + 1 < ranges[d].end
         THEN Some([cursors EXCEPT ![d] = cursors[d] + 1])
         ELSE advance_no_reset_from(ranges, cursors, d - 1)

advance_no_reset(ranges, cursors) ==
    advance_no_reset_from(ranges, cursors, Len(ranges))

\* NextIndex::advance on present cursors
advance(ranges, cursors) == advance_from(ranges, cursors, Len(ranges))

\* NextIndex as an iterator driven by for_each(|idx| v.set(idx)): the bits
\* set from the iterator state `cur` on
RECURSIVE for_each_set(_, _, _)
for_each_set(ds, ranges, cur) ==
    IF cur.tag = "None" THEN {}
    ELSE {compute(ds, cur.val)} \cup for_each_set(ds, ranges, advance(ranges, cur.val))

\* slice with the dimensions recomputed from the lengths of the ranges
slice_reshaped(ds, c, ranges) ==
    [dimensions |-> [d \in 1..Len(ranges) |-> range_len(ranges[d])],
     cells |-> filter(c, for_each_set(ds, ranges, next_index_new(ranges)))]

\* StructuredCells::slice: the dimensions are kept, the cells are filtered
slice(ds, c, ranges) ==
    [dimensions |-> ds,
     cells |-> filter(c, for_each_set(ds, ranges, next_index_new(ranges)))]

\* ------------------------------------------------------- state machine
\* the Cells that Cells::new accepts, over the model's fields and values
AllCells ==
    UNION {UNION {[fs -> [1..n -> Values]] : n \in 0..MaxLen} :
              fs \in (SUBSET FieldNames) \ {{}}}

\* the key lists over the fields of c
KeyLists(c) == SeqsUpTo(DOMAIN c, MaxKeys)

Init ==
    /\ cells \in AllCells
    /\ op = "idle"
    /\ keys = <<>>
    /\ before = cells
    /\ out = None
    /\ dimensions = None
    /\ slices = <<>>
    /\ arg = None

\* cells.is_sorted(keys)
IsSorted ==
    /\ op = "idle"
    /\ \E ks \in KeyLists(cells) :
        /\ op' = "is_sorted"
        /\ keys' = ks
        /\ before' = cells
        /\ out' = Ok(is_sorted(cells, ks))
        /\ UNCHANGED <<cells, dimensions, slices, arg>>

\* cells.sort(keys), in place
Sort ==
    /\ op = "idle"
    /\ \E ks \in KeyLists(cells) :
        /\ op' = "sort"
        /\ keys' = ks
        /\ before' = cells
        /\ cells' = sort(cells, ks)
        /\ out' = None
        /\ UNCHANGED <<dimensions, slices, arg>>

\* a sorted that sorts the receiver itself and returns it
SortedInPlace ==
    /\ op = "idle"
    /\ \E ks \in KeyLists(cells) :
        /\ op' = "sorted"
        /\ keys' = ks
        /\ before' = cells
        /\ cells' = sort(cells, ks)
        /\ out' = Ok(sort(cells, ks))
        /\ UNCHANGED <<dimensions, slices, arg>>

\* cells.sorted(keys)
Sorted ==
    /\ op = "idle"
    /\ \E ks \in KeyLists(cells) :
        /\ op' = "sorted"
        /\ keys' = ks
        /\ before' = cells
        /\ out' = Ok(sorted(cells, ks))
        /\ UNCHANGED <<cells, dimensions, slices, arg>>

\* cells.identify_groups(keys)
IdentifyGroups ==
    /\ op = "idle"
    /\ \E ks \in KeyLists(cells) :
        /\ op' = "identify_groups"
        /\ keys' = ks
        /\ before' = cells
        /\ out' = identify_groups(cells, ks)
        /\ UNCHANGED <<cells, dimensions, slices, arg>>

\* cells.count_distinct(keys)
CountDistinct ==
    /\ op = "idle"
    /\ \E ks \in KeyLists(cells) :
        /\ op' = "count_distinct"
        /\ keys' = ks
        /\ before' = cells
        /\ out' = count_distinct(cells, ks)
        /\ UNCHANGED <<cells, dimensions, slices, arg>>

\* cells.dedup(keys)
Dedup ==
    /\ op = "idle"
    /\ \E ks \in KeyLists(cells) :
        /\ op' = "dedup"
        /\ keys' = ks
        /\ before' = cells
        /\ out' = Ok(dedup(cells, ks))
        /\ UNCHANGED <<cells, dimensions, slices, arg>>

\* the caller drops the result and goes on with the receiver; a panic
\* unwinds the caller, which does not go on
Reuse ==
    /\ op # "idle"
    /\ out # Panic
    /\ op' = "idle"
    /\ keys' = <<>>
    /\ before' = cells
    /\ out' = None
    /\ slices' = <<>>
    /\ arg' = None
    /\ UNCHANGED <<cells, dimensions>>

Next ==
    \/ Reuse
    \/ IsSorted
    \/ Sort
    \/ Sorted
    \/ IdentifyGroups
    \/ CountDistinct
    \/ Dedup

Spec == Init /\ [][Next]_vars

\* ------------------------------------------- StructuredCells machine
\* the dimension lists of the model
AllDimensions ==
    {ds \in SeqsUpTo(0..MaxExtent, MaxDims) : product(ds) <= MaxRows}

\* the cells wrapped for the dimensions ds: product(ds) rows in row-major
\* order, x holding the flat index of the row and y a value of Values
StructuredRows(ds) ==
    [f \in FieldNames |->
        [i \in 1..product(ds) |->
            IF f = "x" THEN i - 1 ELSE (i - 1) % (MaxVal + 1)]]

\* the range lists with ranges[d] inside [0, ds[d]]
RECURSIVE InBoundsRanges(_)
InBoundsRanges(ds) ==
    IF ds = <<>> THEN {<<>>}
    ELSE {<<r>> \o rest :
            r \in {rg \in {Range(a, b) : a \in 0..Head(ds), b \in 0..Head(ds)} :
                        rg.start <= rg.end},
            rest \in InBoundsRanges(Tail(ds))}

\* StructuredCells::new(dimensions, cells) has succeeded
InitSlice ==
    /\ dimensions \in AllDimensions
    /\ cells = StructuredRows(dimensions)
    /\ structured_new_ok(dimensions, cells)
    /\ op = "idle"
    /\ keys = <<>>
    /\ before = cells
    /\ out = None
    /\ slices = <<>>
    /\ arg = None

\* structured.slice(ranges)
Slice ==
    /\ op = "idle"
    /\ \E rs \in InBoundsRanges(dimensions) :
        /\ op' = "slice"
        /\ slices' = rs
        /\ before' = cells
        /\ out' = Ok(slice(dimensions, cells, rs))
        /\ UNCHANGED <<cells, keys, dimensions, arg>>

NextSlice ==
    \/ Reuse
    \/ Slice

SpecSlice == InitSlice /\ [][NextSlice]_vars

\* ---------------------------------------------------------- properties
\* the rows of c
Rows(c) == 0..(len(c) - 1)

\* the tuple of key values of row i
KeyTuple(c, ks, i) == [k \in 1..Len(ks) |-> At(c[ks[k]], i)]

\* the elements of a finite set of numbers in ascending order
RECURSIVE Ascending(_)
Ascending(S) ==
    IF S = {} THEN <<>>
    ELSE LET m == CHOOSE i \in S : \A j \in S : i <= j
         IN <<m>> \o Ascending(S \ {m})

\* the rows of c whose index is in S, in ascending index order
RowsOf(c, S) ==
    LET asc == Ascending(S)
    IN [f \in DOMAIN c |-> [k \in 1..Len(asc) |-> At(c[f], asc[k])]]

\* the bijections on the row indices 0..n-1, as index lists
Perms(n) ==
    {p \in [1..n -> 0..(n - 1)] : \A a, b \in 1..n : p[a] = p[b] => a = b}

\* C1: the result of sorted(K) is sorted by K: no adjacent row pair of it
\* compares Greater under the composite comparator.
C1_SortedIsSorted ==
    op = "sorted" =>
        /\ is_sorted(out.val, keys)
        /\ \A i \in 1..(len(out.val) - 1) :
              index_comparator(out.val, keys, i - 1, i) \in {"Less", "Equal"}

\* a sort by two different keys that had to reorder rows
C1_Witness ==
    /\ op = "sorted"
    /\ Len(keys) = 2
    /\ keys[1] # keys[2]
    /\ ~is_sorted(before, keys)
    /\ len(before) >= 3

\* C2: sort(K) moves the rows by one permutation p applied to every field:
\* after the sort, field f at row i holds what field f held at row p(i);
\* the field names and the row count stay as they were.
C2_SortOnePermutation ==
    op = "sort" =>
        /\ DOMAIN cells = DOMAIN before
        /\ \A f \in DOMAIN cells : Len(cells[f]) = Len(before[f])
        /\ \E p \in Perms(len(before)) :
              \A f \in DOMAIN cells : \A i \in Rows(before) :
                  At(cells[f], i) = At(before[f], At(p, i))

\* a sort on one key that reordered rows carrying a non-key field
C2_Witness ==
    /\ op = "sort"
    /\ keys = <<"x">>
    /\ DOMAIN before = {"x", "y"}
    /\ cells # before
    /\ cells["y"] # before["y"]

\* C3: sorting a Cells that is already sorted by K returns it unchanged, the
\* non-key fields of tied rows included.
C3_SortedKeepsSorted ==
    (op = "sorted" /\ is_sorted(before, keys)) => out.val = before

\* an already sorted Cells with two rows tied on the keys and differing,
\* in descending order, on a non-key field
C3_Witness ==
    /\ op = "sorted"
    /\ keys = <<"x">>
    /\ DOMAIN before = {"x", "y"}
    /\ is_sorted(before, keys)
    /\ \E i \in 1..(len(before) - 1) :
          /\ At(before["x"], i - 1) = At(before["x"], i)
          /\ At(before["y"], i - 1) > At(before["y"], i)

\* C4: dedup(K) holds exactly the rows that no earlier row equals on all the
\* fields of K, in the order of their original indices.
C4_DedupKeepsFirst ==
    op = "dedup" =>
        out.val = RowsOf(before,
                    {i \in Rows(before) :
                        \A j \in 0..(i - 1) :
                            KeyTuple(before, keys, j) # KeyTuple(before, keys, i)})

\* a dedup that dropped a row whose first occurrence is not adjacent to it,
\* and kept a later row with a smaller key
C4_Witness ==
    /\ op = "dedup"
    /\ keys = <<"x">>
    /\ len(before) = 3
    /\ At(before["x"], 0) = At(before["x"], 2)
    /\ At(before["x"], 1) < At(before["x"], 0)
    /\ len(out.val) = 2

\* C5: the result of dedup(K) has as many distinct key combinations as rows.
C5_DedupAllDistinct ==
    op = "dedup" => count_distinct(out.val, keys) = Ok(len(out.val))

\* a dedup on a non-empty key list that dropped rows and kept at least two
C5_Witness ==
    /\ op = "dedup"
    /\ keys # <<>>
    /\ len(out.val) >= 2
    /\ len(out.val) < len(before)

\* C6: for a non-empty key list K, count_distinct(K) is the number of
\* distinct tuples of key values over all the rows, adjacent or not.
C6_CountDistinctTuples ==
    (op = "count_distinct" /\ keys # <<>>) =>
        out = Ok(Cardinality({KeyTuple(before, keys, i) : i \in Rows(before)}))

\* a count over rows whose equal key tuples are not adjacent
C6_Witness ==
    /\ op = "count_distinct"
    /\ keys # <<>>
    /\ len(before) = 3
    /\ KeyTuple(before, keys, 0) = KeyTuple(before, keys, 2)
    /\ KeyTuple(before, keys, 0) # KeyTuple(before, keys, 1)
    /\ out = Ok(2)

\* C7: with at least two rows and an empty key list, count_distinct
\* returns 1.
C7_EmptyKeysCountOne ==
    (op = "count_distinct" /\ keys = <<>> /\ len(before) >= 2) => out = Ok(1)

\* C8: identify_groups(K) returns None for zero rows; otherwise a strictly
\* increasing boundary list that starts at 0 and ends at len().
C8_GroupBoundaries ==
    op = "identify_groups" =>
        IF len(before) = 0 THEN out = None
        ELSE /\ out.tag = "Some"
             /\ Len(out.val) >= 2
             /\ out.val[1] = 0
             /\ out.val[Len(out.val)] = len(before)
             /\ \A k \in 1..(Len(out.val) - 1) : out.val[k] < out.val[k + 1]
             /\ \A k \in 1..Len(out.val) : out.val[k] \in 0..len(before)

\* groups identified on rows that hold several runs
C8_Witness ==
    /\ op = "identify_groups"
    /\ out.tag = "Some"
    /\ Len(out.val) = 4
    /\ len(before) = 3

\* C9: every interval [b, e) between consecutive boundaries holds rows equal
\* to row b on every field of K, and row e, when there is one, differs from
\* row b on some field of K.
C9_GroupsAreMaximalRuns ==
    (op = "identify_groups" /\ out.tag = "Some") =>
        \A k \in 1..(Len(out.val) - 1) :
            LET b == out.val[k]
                e == out.val[k + 1]
            IN /\ \A i \in b..(e - 1) :
                     KeyTuple(before, keys, i) = KeyTuple(before, keys, b)
               /\ e < len(before) =>
                     KeyTuple(before, keys, e) # KeyTuple(before, keys, b)

\* groups on unsorted rows: a run of two rows, then a row that differs from
\* the run
C9_Witness ==
    /\ op = "identify_groups"
    /\ keys # <<>>
    /\ out = Some(<<0, 2, 3>>)

\* the flat row index of the coordinate co: the sum over d of
\* co[d] * product(ds[d+1..]), the last dimension varying fastest
RECURSIVE FlatIndex(_, _, _)
FlatIndex(ds, co, d) ==
    IF d > Len(ds) THEN 0
    ELSE co[d] * product(SubSeq(ds, d + 1, Len(ds))) + FlatIndex(ds, co, d + 1)

\* the coordinates of the cartesian product of the ranges
RECURSIVE Coordinates(_)
Coordinates(rs) ==
    IF rs = <<>> THEN {<<>>}
    ELSE {<<a>> \o rest :
            a \in Head(rs).start..(Head(rs).end - 1),
            rest \in Coordinates(Tail(rs))}

\* product of the range lengths
RECURSIVE RangeVolume(_)
RangeVolume(rs) ==
    IF rs = <<>> THEN 1 ELSE range_len(Head(rs)) * RangeVolume(Tail(rs))

\* C10: on a StructuredCells with product(D) rows and ranges inside the
\* dimensions, slice(R) returns exactly the rows at the flat indices of the
\* coordinates of the cartesian product of R, in ascending flat-index
\* order; that is product |R[d]| rows, and for one dimension the
\* contiguous rows [R[1].start, R[1].end).
C10_SliceRowMajor ==
    (op = "slice" /\ structured_new_ok(dimensions, before)) =>
        LET flat == {FlatIndex(dimensions, co, 1) : co \in Coordinates(slices)}
        IN /\ out.val.cells = RowsOf(before, flat)
           /\ len(out.val.cells) = RangeVolume(slices)
           /\ Len(dimensions) = 1 =>
                 \A f \in DOMAIN before :
                     out.val.cells[f] =
                        SubSeq(before[f], slices[1].start + 1, slices[1].end)

\* the scenario of dimensions [2, 3] sliced by [0..2, 1..3]: the flat
\* indices 1, 2, 4 and 5
C10_Witness ==
    /\ op = "slice"
    /\ dimensions = <<2, 3>>
    /\ slices = <<Range(0, 2), Range(1, 3)>>
    /\ out.val.cells["x"] = <<1, 2, 4, 5>>

\* a three-dimensional slice that carries twice and restarts at a range
\* start other than 0
C10_Witness3D ==
    /\ op = "slice"
    /\ dimensions = <<2, 2, 2>>
    /\ slices = <<Range(0, 2), Range(1, 2), Range(0, 2)>>
    /\ out.val.cells["x"] = <<2, 3, 6, 7>>

\* ------------------------------- StructuredCells with arbitrary ranges
\* the dimension lists of positive extents
PositiveDimensions ==
    {ds \in SeqsUpTo(1..MaxExtent, MaxDims) : product(ds) <= MaxRows}

\* the ranges given for a dimension of extent n: those inside [0, n], the
\* reversed ones (start > end), and one that ends beyond the extent
RangesOfExtent(n) ==
    {Range(a, b) : a \in 0..n, b \in 0..n} \cup {Range(0, n + 1)}

\* the range lists, one range for every dimension
RECURSIVE AnyRanges(_)
AnyRanges(ds) ==
    IF ds = <<>> THEN {<<>>}
    ELSE {<<r>> \o rest :
            r \in RangesOfExtent(Head(ds)), rest \in AnyRanges(Tail(ds))}

\* StructuredCells::new(dimensions, cells) has succeeded
InitSliceAny ==
    /\ dimensions \in PositiveDimensions
    /\ cells = StructuredRows(dimensions)
    /\ structured_new_ok(dimensions, cells)
    /\ op = "idle"
    /\ keys = <<>>
    /\ before = cells
    /\ out = None
    /\ slices = <<>>
    /\ arg = None

\* structured.slice(ranges), whatever the ranges
SliceAny ==
    /\ op = "idle"
    /\ \E rs \in AnyRanges(dimensions) :
        /\ op' = "slice"
        /\ slices' = rs
        /\ before' = cells
        /\ out' = Ok(slice(dimensions, cells, rs))
        /\ UNCHANGED <<cells, keys, dimensions, arg>>

\* the caller goes on with the slice it got (repeated slicing); only a
\* slice of a StructuredCells as constructed, of at most MaxResliceRows
\* rows, is taken over
Reslice ==
    /\ op = "slice"
    /\ product(dimensions) = len(cells)
    /\ len(cells) <= MaxResliceRows
    /\ op' = "idle"
    /\ cells' = out.val.cells
    /\ dimensions' = out.val.dimensions
    /\ before' = out.val.cells
    /\ out' = None
    /\ slices' = <<>>
    /\ UNCHANGED <<keys, arg>>

NextSliceAny ==
    \/ Reuse
    \/ SliceAny
    \/ Reslice

SpecSliceAny == InitSliceAny /\ [][NextSliceAny]_vars

\* C11: when some range given to slice is empty (start >= end), the result
\* has zero rows in every field, whatever the other ranges are.
C11_EmptyRangeSelectsNothing ==
    (op = "slice" /\ \E d \in 1..Len(slices) : slices[d].start >= slices[d].end) =>
        /\ DOMAIN out.val.cells = DOMAIN before
        /\ \A f \in DOMAIN out.val.cells : Len(out.val.cells[f]) = 0

\* a slice of a StructuredCells that holds rows, with a reversed range in
\* one dimension and a range that ends beyond the extent in another
C11_Witness ==
    /\ op = "slice"
    /\ len(before) >= 2
    /\ Len(slices) = 2
    /\ slices[1].start > slices[1].end
    /\ slices[2] = Range(0, dimensions[2] + 1)

\* C12: the StructuredCells returned by slice has the dimensions of the
\* receiver; when the slice holds fewer rows than the receiver, the product
\* of its dimensions differs from its row count.
C12_SliceKeepsDimensions ==
    op = "slice" =>
        /\ out.val.dimensions = dimensions
        /\ len(out.val.cells) < len(before) =>
              product(out.val.dimensions) # len(out.val.cells)

\* a slice that selects some rows, but not all, of a StructuredCells
C12_Witness ==
    /\ op = "slice"
    /\ dimensions = <<2, 3>>
    /\ len(before) = 6
    /\ len(out.val.cells) = 4
    /\ out.val.dimensions = <<2, 3>>

\* a slice taken of a slice, whose dimensions no longer match its rows
C12_WitnessRepeated ==
    /\ op = "slice"
    /\ product(dimensions) > len(before)
    /\ len(before) > len(out.val.cells)
    /\ len(out.val.cells) > 0

\* ------------------------------------------- Cells: in-place operations
\* FieldData::truncate: the first n rows, or all of them when n >= len
field_truncate(col, n) == IF n >= Len(col) THEN col ELSE SubSeq(col, 1, n)

\* truncate that keeps the last n rows of every field instead of the first
truncate_keep_last(c, n) ==
    [f \in DOMAIN c |->
        IF n >= Len(c[f]) THEN c[f]
        ELSE [i \in 1..n |-> c[f][Len(c[f]) - n + i]]]

\* Cells::truncate
truncate(c, n) == [f \in DOMAIN c |-> field_truncate(c[f], n)]

\* FieldData::extend for two columns of one physical type
field_extend(col, other) == col \o other

\* extend that puts the rows of other in front
extend_prepend(c, other) ==
    IF \E f \in DOMAIN c : f \notin DOMAIN other THEN Panic
    ELSE IF DOMAIN other \ DOMAIN c # {} THEN Panic
    ELSE Ok([f \in DOMAIN c |-> field_extend(other[f], c[f])])

\* extend without the closing assert_eq!(other.fields.len(), 0)
extend_no_assert(c, other) ==
    IF \E f \in DOMAIN c : f \notin DOMAIN other THEN Panic
    ELSE Ok([f \in DOMAIN c |-> field_extend(c[f], other[f])])

\* Cells::extend: `other.fields.remove(field).unwrap()` panics when other
\* lacks a field of self, the closing assert_eq! when other has a field
\* left over
extend(c, other) ==
    IF \E f \in DOMAIN c : f \notin DOMAIN other THEN Panic
    ELSE IF DOMAIN other \ DOMAIN c # {} THEN Panic
    ELSE Ok([f \in DOMAIN c |-> field_extend(c[f], other[f])])

\* what a panicking extend leaves in the receiver: the fields the loop
\* reached are extended (the HashMap yields them in any order); the closing
\* assert fails after the loop has extended them all
extend_unwound(c, other) ==
    IF \E f \in DOMAIN c : f \notin DOMAIN other
    THEN {[f \in DOMAIN c |-> IF f \in done THEN field_extend(c[f], other[f]) ELSE c[f]] :
             done \in SUBSET (DOMAIN c \cap DOMAIN other)}
    ELSE {[f \in DOMAIN c |-> field_extend(c[f], other[f])]}

\* add_field without the test on the number of values
add_field_any_length(c, key, values) ==
    IF key \in DOMAIN c
    THEN [ret |-> FALSE, cells |-> c]
    ELSE [ret |-> TRUE,
          cells |-> [f \in DOMAIN c \cup {key} |-> IF f = key THEN values ELSE c[f]]]

\* add_field that inserts over a field that is already there
add_field_overwrite(c, key, values) ==
    IF len(c) # Len(values)
    THEN [ret |-> FALSE, cells |-> c]
    ELSE [ret |-> key \notin DOMAIN c,
          cells |-> [f \in DOMAIN c \cup {key} |-> IF f = key THEN values ELSE c[f]]]

\* Cells::add_field: the value returned and the receiver afterwards
add_field(c, key, values) ==
    IF len(c) # Len(values)
    THEN [ret |-> FALSE, cells |-> c]
    ELSE IF key \in DOMAIN c
         THEN [ret |-> FALSE, cells |-> c]
         ELSE [ret |-> TRUE,
               cells |-> [f \in DOMAIN c \cup {key} |->
                             IF f = key THEN values ELSE c[f]]]

\* ------------------------------------------------- Cells: lookups
\* the names of a list of fields
NamesOf(fields) == {fields[k] : k \in 1..Len(fields)}

\* projection that leaves out the names it does not find
projection_partial(c, fields) ==
    Some([f \in NamesOf(fields) \cap DOMAIN c |-> c[f]])

\* projection that returns every field of the receiver
projection_all(c, fields) ==
    IF \E k \in 1..Len(fields) : fields[k] \notin DOMAIN c THEN None
    ELSE Some(c)

\* Cells::projection: collecting into Option<HashMap> gives None as soon as
\* one name is not found; Cells::new accepts the columns, which have one
\* length
projection(c, fields) ==
    IF \E k \in 1..Len(fields) : fields[k] \notin DOMAIN c THEN None
    ELSE Some([f \in NamesOf(fields) |-> c[f]])

\* Cells::view: panics on a key that is no field; the range is not looked at
view(c, ks, range) ==
    IF \E k \in 1..Len(ks) : ks[k] \notin DOMAIN c THEN Panic
    ELSE Ok([cells |-> c, keys |-> ks, slice |-> range])

\* ------------------------------------- state machine of the operations
\* the Cells handed to extend: any set of fields, rows that still fit
OthersFor(c) ==
    UNION {UNION {[fs -> [1..n -> Values]] : n \in 0..(MaxLen - len(c))} :
              fs \in SUBSET FieldNames}

\* the columns handed to add_field: one row less, as many, one row more
ColumnsFor(c) ==
    {[i \in 1..n |-> (i + v) % (MaxVal + 1)] :
        n \in {m \in {len(c) - 1, len(c), len(c) + 1} : m >= 0}, v \in Values}

\* the bit sets handed to filter; bit MaxLen is beyond every row
BitSets == SUBSET (0..MaxLen)

\* the lists of names handed to projection and view; "z" is never a field
NameLists == SeqsUpTo(FieldNames \cup {"z"}, MaxKeys)

\* cells.truncate(n), in place
Truncate ==
    /\ op = "idle"
    /\ \E n \in 0..(MaxLen + 1) :
        /\ op' = "truncate"
        /\ arg' = n
        /\ before' = cells
        /\ cells' = truncate(cells, n)
        /\ out' = None
        /\ UNCHANGED <<keys, dimensions, slices>>

\* cells.add_field(key, values), in place
AddField ==
    /\ op = "idle"
    /\ \E key \in FieldNames, values \in ColumnsFor(cells) :
        /\ op' = "add_field"
        /\ arg' = [key |-> key, values |-> values]
        /\ before' = cells
        /\ cells' = add_field(cells, key, values).cells
        /\ out' = Ok(add_field(cells, key, values).ret)
        /\ UNCHANGED <<keys, dimensions, slices>>

\* cells.extend(other), in place
Extend ==
    /\ op = "idle"
    /\ \E other \in OthersFor(cells) :
        /\ op' = "extend"
        /\ arg' = other
        /\ before' = cells
        /\ IF extend(cells, other) = Panic
           THEN /\ out' = Panic
                /\ cells' \in extend_unwound(cells, other)
           ELSE /\ out' = Ok(<<>>)
                /\ cells' = extend(cells, other).val
        /\ UNCHANGED <<keys, dimensions, slices>>

\* cells.filter(set)
Filter ==
    /\ op = "idle"
    /\ \E set \in BitSets :
        /\ op' = "filter"
        /\ arg' = set
        /\ before' = cells
        /\ out' = Ok(filter(cells, set))
        /\ UNCHANGED <<cells, keys, dimensions, slices>>

\* cells.projection(fields)
Projection ==
    /\ op = "idle"
    /\ \E fields \in NameLists :
        /\ op' = "projection"
        /\ keys' = fields
        /\ before' = cells
        /\ out' = projection(cells, fields)
        /\ UNCHANGED <<cells, dimensions, slices, arg>>

\* cells.view(keys, slice)
View ==
    /\ op = "idle"
    /\ \E ks \in NameLists, range \in {Range(0, len(cells)), Range(1, 0)} :
        /\ op' = "view"
        /\ keys' = ks
        /\ arg' = range
        /\ before' = cells
        /\ out' = view(cells, ks, range)
        /\ UNCHANGED <<cells, dimensions, slices>>

NextOps ==
    \/ Reuse
    \/ Sort
    \/ Truncate
    \/ AddField
    \/ Extend
    \/ Sorted
    \/ Filter
    \/ Dedup
    \/ Projection

SpecOps == Init /\ [][NextOps]_vars

NextLookup ==
    \/ Reuse
    \/ Projection
    \/ View

SpecLookup == Init /\ [][NextLookup]_vars

\* ------------------------------------------------------------ C13
\* every field of c has the same number of rows
OneRowCount(c) == \A f \in DOMAIN c, g \in DOMAIN c : Len(c[f]) = Len(c[g])

\* C13: all the fields of a Cells have one row count, and that is still so
\* for the receiver after sort, truncate, add_field and an extend that
\* returns, and for the Cells returned by sorted, filter, dedup and a
\* projection onto a non-empty list of names
C13_OneRowCount ==
    /\ (op \in {"idle", "sort", "truncate", "add_field"} => OneRowCount(cells))
    /\ (op = "extend" /\ out # Panic => OneRowCount(cells))
    /\ (op \in {"sorted", "filter", "dedup"} => OneRowCount(out.val))
    /\ (op = "projection" /\ keys # <<>> /\ out # None => OneRowCount(out.val))

\* add_field has put a second field next to a field of two rows or more
C13_Witness ==
    /\ op = "add_field"
    /\ out = Ok(TRUE)
    /\ Cardinality(DOMAIN cells) = 2
    /\ len(before) >= 2

\* ------------------------------------------------------------ C14
\* the rows from..to (1-based, inclusive) of a column
RowsFromTo(col, from, to) == [i \in 1..(to - from + 1) |-> col[from + i - 1]]

\* C14: when dst and src have the same field names, dst.extend(src) returns
\* and leaves in dst the same field names, every field with
\* len(dst) + len(src) rows: first the rows dst had, then the rows of src in
\* their order
C14_ExtendAppends ==
    (op = "extend" /\ DOMAIN arg = DOMAIN before) =>
        /\ out = Ok(<<>>)
        /\ DOMAIN cells = DOMAIN before
        /\ \A f \in DOMAIN cells :
            /\ Len(cells[f]) = Len(before[f]) + Len(arg[f])
            /\ RowsFromTo(cells[f], 1, Len(before[f])) = before[f]
            /\ RowsFromTo(cells[f], Len(before[f]) + 1, Len(cells[f])) = arg[f]

\* two fields, one row extended by two rows that differ from it and from
\* each other
C14_Witness ==
    /\ op = "extend"
    /\ out = Ok(<<>>)
    /\ DOMAIN before = {"x", "y"}
    /\ before["x"] = <<1>>
    /\ arg["x"] = <<0, 1>>
    /\ cells["x"] = <<1, 0, 1>>

\* ------------------------------------------------------------ C15
\* C15: extend panics whenever the two sets of field names differ: when src
\* lacks a field of dst, and when src has a field that dst has not
C15_ExtendNamesMustMatch ==
    (op = "extend" /\ DOMAIN arg # DOMAIN before) => out = Panic

\* src has every field of dst and one more: only the closing assert fails
C15_Witness ==
    /\ op = "extend"
    /\ out = Panic
    /\ DOMAIN before = {"x"}
    /\ DOMAIN arg = {"x", "y"}
    /\ Len(arg["x"]) >= 1

\* src lacks a field of dst: the unwrap of the removed field fails
C15_WitnessMissing ==
    /\ op = "extend"
    /\ out = Panic
    /\ DOMAIN before = {"x", "y"}
    /\ DOMAIN arg = {"x"}

\* ------------------------------------------------------------ C16
\* the k-th smallest member of a set of naturals, k from 1
KthOf(S, k) == CHOOSE i \in S : Cardinality({j \in S : j < i}) = k - 1

\* C16: filter returns the field names of the receiver, and in every field
\* exactly the rows whose bit is set, by increasing row index; the row count
\* is the number of set bits below len()
C16_FilterKeepsSetRows ==
    op = "filter" =>
        LET kept == {i \in arg : i < len(before)}
        IN /\ DOMAIN out.val = DOMAIN before
           /\ \A f \in DOMAIN before :
               /\ Len(out.val[f]) = Cardinality(kept)
               /\ \A k \in 1..Cardinality(kept) :
                   out.val[f][k] = At(before[f], KthOf(kept, k))

\* rows 0 and 2 of three are kept and differ, row 1 is dropped, and a bit
\* beyond the last row is set
C16_Witness ==
    /\ op = "filter"
    /\ arg = {0, 2, MaxLen}
    /\ DOMAIN before = {"x", "y"}
    /\ before["x"] = <<1, 1, 0>>
    /\ out.val["x"] = <<1, 0>>
    /\ len(before) = 3

\* ------------------------------------------------------------ C17
\* no name occurs twice in the list
DistinctNames(fields) ==
    \A j \in 1..Len(fields), k \in 1..Len(fields) : fields[j] = fields[k] => j = k

\* C17: a projection onto distinct names that are all fields of the receiver
\* returns a Cells with exactly those names, as many fields as names, every
\* column equal to the receiver's column
C17_ProjectionKeepsNamed ==
    (/\ op = "projection"
     /\ DistinctNames(keys)
     /\ \A k \in 1..Len(keys) : keys[k] \in DOMAIN before) =>
        /\ out.tag = "Some"
        /\ DOMAIN out.val = {keys[k] : k \in 1..Len(keys)}
        /\ Cardinality(DOMAIN out.val) = Len(keys)
        /\ \A f \in DOMAIN out.val : out.val[f] = before[f]

\* one of two fields is projected, and the two columns differ
C17_Witness ==
    /\ op = "projection"
    /\ keys = <<"y">>
    /\ DOMAIN before = {"x", "y"}
    /\ before["x"] # before["y"]
    /\ out = Some([f \in {"y"} |-> before["y"]])

\* ------------------------------------------------------------ C18
\* C18: a projection gives no Cells at all when one of the names is not a
\* field of the receiver, whatever the other names are, and a view panics
\* when one of its keys is not a field of the receiver
C18_UnknownNameFails ==
    /\ (op = "projection" /\ (\E k \in 1..Len(keys) : keys[k] \notin DOMAIN before)
           => out = None)
    /\ (op = "view" /\ (\E k \in 1..Len(keys) : keys[k] \notin DOMAIN before)
           => out = Panic)

\* a projection onto a field of the receiver and an unknown name
C18_Witness ==
    /\ op = "projection"
    /\ keys = <<"x", "z">>
    /\ "x" \in DOMAIN before
    /\ out = None

\* a view keyed by a field of the receiver and an unknown name
C18_WitnessView ==
    /\ op = "view"
    /\ keys = <<"x", "z">>
    /\ "x" \in DOMAIN before
    /\ out = Panic

\* ------------------------------------------------------------ C19
\* C19: add_field returns false and leaves the receiver as it was when the
\* number of values is not len() or the name is already a field; otherwise
\* it returns true and the receiver has its former fields, unchanged, and
\* the new name mapped to the values
C19_AddFieldChecked ==
    op = "add_field" =>
        IF Len(arg.values) # len(before) \/ arg.key \in DOMAIN before
        THEN out = Ok(FALSE) /\ cells = before
        ELSE /\ out = Ok(TRUE)
             /\ DOMAIN cells = DOMAIN before \cup {arg.key}
             /\ cells[arg.key] = arg.values
             /\ \A f \in DOMAIN before : cells[f] = before[f]

\* values of the right length are refused for a name that is already a
\* field, and the column of that name is not the values
C19_Witness ==
    /\ op = "add_field"
    /\ arg.key \in DOMAIN before
    /\ Len(arg.values) = len(before)
    /\ before[arg.key] # arg.values
    /\ out = Ok(FALSE)

\* a field is added
C19_WitnessAdded ==
    /\ op = "add_field"
    /\ out = Ok(TRUE)
    /\ DOMAIN before = {"x"}
    /\ cells["y"] = arg.values
    /\ Len(arg.values) >= 2

\* --------------------------------------- state machine of construction
\* Cells::new(HashMap::new())
EmptyCells == [f \in {} |-> <<>>]

\* the maps handed to Cells::new: any set of fields, each column with a
\* length of its own
FieldMaps ==
    LET Columns == {[i \in 1..n |-> (i + v) % (MaxVal + 1)] :
                       n \in 0..MaxLen, v \in Values}
    IN UNION {[fs -> Columns] : fs \in SUBSET FieldNames}

\* the dimensions handed to StructuredCells::new
AnyDimensions == SeqsUpTo(0..MaxExtent, MaxDims)

\* Cells::new(fields): the Cells, or the panic of the assert_eq!
new(fields) == IF new_ok(fields) THEN Ok(fields) ELSE Panic

\* StructuredCells::new(dimensions, cells): cells.len() panics on a Cells
\* without fields, the assert_eq! when the product is not the row count
structured_new(ds, c) ==
    IF DOMAIN c = {} THEN Panic
    ELSE IF structured_new_ok(ds, c)
         THEN Ok([dimensions |-> ds, cells |-> c])
         ELSE Panic

InitNew ==
    /\ cells = EmptyCells
    /\ op = "idle"
    /\ keys = <<>>
    /\ before = cells
    /\ out = None
    /\ dimensions = None
    /\ slices = <<>>
    /\ arg = None

\* Cells::new(fields)
New ==
    /\ op = "idle"
    /\ \E fields \in FieldMaps :
        /\ op' = "new"
        /\ arg' = fields
        /\ before' = cells
        /\ out' = new(fields)
        /\ cells' = IF new(fields) = Panic THEN cells ELSE fields
        /\ dimensions' = None
        /\ UNCHANGED <<keys, slices>>

\* StructuredCells::new(dimensions, cells) of the Cells just built
Wrap ==
    /\ op = "new"
    /\ out # Panic
    /\ \E ds \in AnyDimensions :
        /\ op' = "structured_new"
        /\ arg' = ds
        /\ before' = cells
        /\ out' = structured_new(ds, cells)
        /\ dimensions' = IF structured_new(ds, cells) = Panic THEN None ELSE ds
        /\ UNCHANGED <<cells, keys, slices>>

NextNew ==
    \/ Reuse
    \/ New
    \/ Wrap

SpecNew == InitNew /\ [][NextNew]_vars

\* ------------------------------------------------------------ C20
\* C20: Cells::new panics exactly when two of the fields it is given have
\* different lengths, so a map of no field or of one field is accepted;
\* StructuredCells::new of a Cells with a row count panics exactly when the
\* product of the dimensions is not that row count
C20_ConstructorsValidate ==
    /\ (op = "new" =>
           /\ (out = Panic) =
                  (\E f \in DOMAIN arg, g \in DOMAIN arg : Len(arg[f]) # Len(arg[g]))
           /\ (out # Panic => out = Ok(arg) /\ cells = arg))
    /\ (op = "structured_new" /\ DOMAIN cells # {} =>
           /\ (out = Panic) = (\E f \in DOMAIN cells : product(arg) # Len(cells[f]))
           /\ (out # Panic => out = Ok([dimensions |-> arg, cells |-> cells])))

\* two fields that both have rows, of different lengths, are refused
C20_Witness ==
    /\ op = "new"
    /\ out = Panic
    /\ DOMAIN arg = {"x", "y"}
    /\ Len(arg["x"]) = 1
    /\ Len(arg["y"]) = 2

\* the map without fields is accepted
C20_WitnessEmptyMap ==
    /\ op = "new"
    /\ arg = EmptyCells
    /\ out = Ok(EmptyCells)

\* dimensions whose product is not the row count are refused
C20_WitnessShape ==
    /\ op = "structured_new"
    /\ out = Panic
    /\ arg = <<2, 2>>
    /\ DOMAIN cells = {"x", "y"}
    /\ Len(cells["x"]) = 3

\* dimensions whose product is the row count are accepted
C20_WitnessShapeAccepted ==
    /\ op = "structured_new"
    /\ out # Panic
    /\ arg = <<1, 3>>
    /\ DOMAIN cells = {"x", "y"}
    /\ Len(cells["x"]) = 3

\* ------------------------------------------------ Cells: copy_from
\* copy_from that replaces a column of self whatever the two lengths are
copy_from_always_replace(c, other) ==
    [f \in DOMAIN c \cup DOMAIN other |-> IF f \in DOMAIN other THEN other[f] ELSE c[f]]

\* copy_from that skips the fields self does not have
copy_from_common_only(c, other) ==
    [f \in DOMAIN c |->
        IF f \notin DOMAIN other THEN c[f]
        ELSE IF Len(c[f]) <= Len(other[f]) THEN other[f]
        ELSE [i \in 1..Len(c[f]) |-> IF i <= Len(other[f]) THEN other[f][i] ELSE c[f][i]]]

\* Cells::copy_from, for columns of one physical type: a vacant entry takes
\* the column; an occupied one is replaced when mine.len() <= theirs.len(),
\* else mine[0..theirs.len()] is overwritten
copy_from(c, other) ==
    [f \in DOMAIN c \cup DOMAIN other |->
        IF f \notin DOMAIN other THEN c[f]
        ELSE IF f \notin DOMAIN c THEN other[f]
        ELSE IF Len(c[f]) <= Len(other[f]) THEN other[f]
        ELSE [i \in 1..Len(c[f]) |-> IF i <= Len(other[f]) THEN other[f][i] ELSE c[f][i]]]

\* the Cells handed to copy_from: any set of fields, one row count, every
\* column a ramp from a value of its own
CopySources ==
    UNION {UNION {{[f \in fs |-> [i \in 1..n |-> (i + v[f]) % (MaxVal + 1)]] :
                      v \in [fs -> Values]} : n \in 0..MaxLen} :
              fs \in SUBSET FieldNames}

\* cells.copy_from(other), in place
CopyFrom ==
    /\ op = "idle"
    /\ \E other \in CopySources :
        /\ op' = "copy_from"
        /\ arg' = other
        /\ before' = cells
        /\ cells' = copy_from(cells, other)
        /\ out' = None
        /\ UNCHANGED <<keys, dimensions, slices>>

NextCopy ==
    \/ Reuse
    \/ CopyFrom

SpecCopy == Init /\ [][NextCopy]_vars

\* ------------------------------------------------------------ C21
\* C21: after self.copy_from(other), a field of other that self did not have
\* is other's column; a field of both whose column in self was not longer
\* is other's column; a field of both whose column in self was longer has
\* other's rows first, then its own former rows, and its former length; a
\* field of self that other does not have is as it was
C21_CopyFromRule ==
    op = "copy_from" =>
        /\ DOMAIN cells = DOMAIN before \cup DOMAIN arg
        /\ \A f \in DOMAIN arg :
            IF f \notin DOMAIN before THEN cells[f] = arg[f]
            ELSE IF Len(before[f]) <= Len(arg[f]) THEN cells[f] = arg[f]
            ELSE /\ Len(cells[f]) = Len(before[f])
                 /\ \A i \in 1..Len(arg[f]) : cells[f][i] = arg[f][i]
                 /\ \A i \in (Len(arg[f]) + 1)..Len(before[f]) : cells[f][i] = before[f][i]
        /\ \A f \in DOMAIN before \ DOMAIN arg : cells[f] = before[f]

\* a column of three rows is overwritten in its first two rows, which
\* change, and keeps its third
C21_Witness ==
    /\ op = "copy_from"
    /\ "x" \in DOMAIN before
    /\ "x" \in DOMAIN arg
    /\ before["x"] = <<0, 0, 1>>
    /\ arg["x"] = <<1, 0>>
    /\ cells["x"] = <<1, 0, 1>>

\* a shorter column is replaced by a longer one, and a field is adopted
C21_WitnessReplaced ==
    /\ op = "copy_from"
    /\ DOMAIN before = {"x"}
    /\ DOMAIN arg = {"x", "y"}
    /\ Len(before["x"]) = 1
    /\ Len(arg["x"]) = 2
    /\ cells = arg

\* ------------------------------------------------------------ C29
\* C29: when self and other each have one row count, self has one row count
\* after self.copy_from(other) exactly when the two row counts are equal, or
\* other is longer and has every field of self, or other is shorter and has
\* no field that self has not; otherwise fields of self differ in length
C29_CopyFromKeepsRowCount ==
    (/\ op = "copy_from"
     /\ OneRowCount(before)
     /\ DOMAIN before # {}
     /\ DOMAIN arg # {}) =>
        LET s == len(before)
            o == len(arg)
        IN OneRowCount(cells) =
               \/ o = s
               \/ o > s /\ DOMAIN before \subseteq DOMAIN arg
               \/ o < s /\ DOMAIN arg \subseteq DOMAIN before

\* a longer other without a field of self leaves that field short
C29_Witness ==
    /\ op = "copy_from"
    /\ DOMAIN before = {"x", "y"}
    /\ DOMAIN arg = {"x"}
    /\ OneRowCount(before)
    /\ Len(before["x"]) = 1
    /\ Len(arg["x"]) = 3
    /\ Len(cells["x"]) = 3
    /\ Len(cells["y"]) = 1

\* a shorter other with a field self has not brings a shorter field
C29_WitnessAdopted ==
    /\ op = "copy_from"
    /\ DOMAIN before = {"x"}
    /\ DOMAIN arg = {"x", "y"}
    /\ Len(before["x"]) = 2
    /\ Len(arg["x"]) = 1
    /\ Len(cells["x"]) = 2
    /\ Len(cells["y"]) = 1

\* a longer other with every field of self gives self its row count
C29_WitnessKept ==
    /\ op = "copy_from"
    /\ DOMAIN before = {"x", "y"}
    /\ DOMAIN arg = {"x", "y"}
    /\ OneRowCount(before)
    /\ len(before) = 1
    /\ len(arg) = 3
    /\ OneRowCount(cells)

\* --------------------------------------------------- CellsView: eq
\* bit patterns of a floating-point physical type, by the value they encode
FloatBits == <<"0.0", "-0.0", "NaN">>

\* `==` of the floating-point types: NaN equals nothing, the two zeros are
\* equal
float_eq(a, b) ==
    /\ a # "NaN"
    /\ b # "NaN"
    /\ (a = b \/ {a, b} = {"0.0", "-0.0"})

\* data[range]: panics when the range is reversed or ends beyond the column
index_range(col, r) ==
    IF r.start > r.end \/ r.end > Len(col) THEN Panic
    ELSE Ok([i \in 1..(r.end - r.start) |-> col[r.start + i]])

\* `!=` of two slices of floating-point values
slice_ne(xs, ys) ==
    \/ Len(xs) # Len(ys)
    \/ \E i \in 1..Len(xs) : ~float_eq(xs[i], ys[i])

\* the loop of CellsView::eq over self.keys, from the k-th key on
RECURSIVE view_eq_from(_, _, _)
view_eq_from(a, b, k) ==
    IF k > Len(a.keys) THEN Ok(Len(a.keys) = Len(b.keys))
    ELSE LET key == a.keys[k]
         IN IF key \notin DOMAIN a.cells THEN Panic
            ELSE IF key \notin DOMAIN b.cells THEN Ok(FALSE)
            ELSE LET mine == index_range(a.cells[key], a.slice)
                     theirs == index_range(b.cells[key], b.slice)
                 IN IF mine = Panic \/ theirs = Panic THEN Panic
                    ELSE IF slice_ne(mine.val, theirs.val) THEN Ok(FALSE)
                    ELSE view_eq_from(a, b, k + 1)

\* <CellsView as PartialEq>::eq
view_eq(a, b) ==
    IF range_len(a.slice) # range_len(b.slice) THEN Ok(FALSE)
    ELSE view_eq_from(a, b, 1)

\* a column of n rows that runs through the bit patterns from the v-th on
FloatColumn(n, v) == [i \in 1..n |-> FloatBits[((i + v) % Len(FloatBits)) + 1]]

\* Cells of floating-point columns
FloatCells ==
    UNION {UNION {{[f \in fs |-> FloatColumn(n, v[f])] :
                      v \in [fs -> 0..(Len(FloatBits) - 1)]} : n \in 0..MaxLen} :
              fs \in (SUBSET FieldNames) \ {{}}}

\* the ranges handed to view for a Cells of n rows: empty, reversed, of one
\* and of two rows, some of them ending beyond the last row
ViewRanges(n) == {Range(s, e) : s \in 0..n, e \in 0..(n + 1)}

\* the Cells compared with c: c itself, c without one field, c with one
\* column running from another bit pattern
ComparedWith(c) ==
    {c}
    \cup {[f \in DOMAIN c \ {g} |-> c[f]] : g \in {h \in DOMAIN c : DOMAIN c # {h}}}
    \cup {[f \in DOMAIN c |-> IF f = g THEN FloatColumn(Len(c[g]), v) ELSE c[f]] :
             g \in DOMAIN c, v \in 0..(Len(FloatBits) - 1)}

InitView ==
    /\ cells \in FloatCells
    /\ op = "idle"
    /\ keys = <<>>
    /\ before = cells
    /\ out = None
    /\ dimensions = None
    /\ slices = <<>>
    /\ arg = None

\* cells.view(ks, r) == other.view(oks, or)
ViewEq ==
    /\ op = "idle"
    /\ \E ks \in KeyLists(cells), r \in ViewRanges(len(cells)) :
        \E other \in ComparedWith(cells) :
            \E g \in DOMAIN other, m \in {Len(ks), Len(ks) + 1},
               os \in 0..len(cells), ol \in {range_len(r), range_len(r) + 1} :
                LET oks == [i \in 1..m |-> IF i <= Len(ks) /\ ks[i] \in DOMAIN other
                                           THEN ks[i] ELSE g]
                    a == view(cells, ks, r).val
                    b == view(other, oks, Range(os, os + ol)).val
                IN /\ op' = "view_eq"
                   /\ keys' = ks
                   /\ arg' = [mine |-> a, other |-> b]
                   /\ before' = cells
                   /\ out' = view_eq(a, b)
                   /\ UNCHANGED <<cells, dimensions, slices>>

NextView ==
    \/ Reuse
    \/ ViewEq

SpecView == InitView /\ [][NextView]_vars

\* ------------------------------------------------------------ C22
\* the range of a view lies within the rows of its Cells
ViewInBounds(v) ==
    /\ v.slice.start <= v.slice.end
    /\ \A f \in DOMAIN v.cells : v.slice.end <= Len(v.cells[f])

\* the rows of the two ranges have the same bit patterns, row by row
BitEqualRows(a, b, k) ==
    \A i \in 0..(range_len(a.slice) - 1) :
        At(a.cells[k], a.slice.start + i) = At(b.cells[k], b.slice.start + i)

\* C22: two views are equal exactly when their ranges have the same length,
\* they have the same number of keys, and for every key of the first the
\* Cells of the second has that field with bit-equal rows in its range; a
\* key the second Cells lacks makes them unequal
C22_ViewEqIsBitEquality ==
    (/\ op = "view_eq"
     /\ ViewInBounds(arg.mine)
     /\ ViewInBounds(arg.other)) =>
        out = Ok(/\ range_len(arg.mine.slice) = range_len(arg.other.slice)
                 /\ Len(arg.mine.keys) = Len(arg.other.keys)
                 /\ \A k \in 1..Len(arg.mine.keys) :
                     /\ arg.mine.keys[k] \in DOMAIN arg.other.cells
                     /\ BitEqualRows(arg.mine, arg.other, arg.mine.keys[k]))

\* the comparison of two views returns
C22_ViewEqReturns == op = "view_eq" => out # Panic

\* --------------------------------------------------- Cells: bits_eq
\* FieldData::bits_eq for two columns of one physical type
field_bits_eq(mine, theirs) ==
    /\ Len(mine) = Len(theirs)
    /\ \A i \in 1..Len(mine) : ~bits_ne(mine[i], theirs[i])

\* bits_eq without the closing comparison of the numbers of fields
bits_eq_fields_of_self(a, b) ==
    \A key \in DOMAIN a : key \in DOMAIN b /\ field_bits_eq(a[key], b[key])

\* <Cells as BitsEq>::bits_eq
bits_eq(a, b) ==
    /\ \A key \in DOMAIN a : key \in DOMAIN b /\ field_bits_eq(a[key], b[key])
    /\ Cardinality(DOMAIN a) = Cardinality(DOMAIN b)

\* cells.bits_eq(other), other being the receiver itself or a Cells of ramps
BitsEq ==
    /\ op = "idle"
    /\ \E other \in CopySources \cup {cells} :
        /\ op' = "bits_eq"
        /\ arg' = other
        /\ before' = cells
        /\ out' = Ok(bits_eq(cells, other))
        /\ UNCHANGED <<cells, keys, dimensions, slices>>

NextBitsEq ==
    \/ Reuse
    \/ BitsEq

SpecBitsEq == Init /\ [][NextBitsEq]_vars

\* ------------------------------------------------------------ C23
\* C23: a.bits_eq(b) holds exactly when a and b have the same field names
\* and every column of a has the length and the bit patterns of the column
\* of b; so b.bits_eq(a) gives the same answer, and a field that only one of
\* the two has makes them unequal
C23_BitsEqSameFieldsSameBits ==
    op = "bits_eq" =>
        /\ out.val = (/\ DOMAIN before = DOMAIN arg
                      /\ \A f \in DOMAIN before :
                          /\ Len(before[f]) = Len(arg[f])
                          /\ \A i \in 1..Len(before[f]) : before[f][i] = arg[f][i])
        /\ out.val = bits_eq(arg, before)
        /\ (DOMAIN before # DOMAIN arg => out.val = FALSE)

\* other has the column of self bit for bit, and a field more
C23_Witness ==
    /\ op = "bits_eq"
    /\ DOMAIN before = {"x"}
    /\ DOMAIN arg = {"x", "y"}
    /\ arg["x"] = before["x"]
    /\ Len(before["x"]) >= 2
    /\ out = Ok(FALSE)

\* two Cells of two fields and two rows or more are bit-equal
C23_WitnessEqual ==
    /\ op = "bits_eq"
    /\ DOMAIN before = {"x", "y"}
    /\ Len(before["x"]) >= 2
    /\ before["x"] # before["y"]
    /\ out = Ok(TRUE)

\* ------------------------------- state machine of the transformations
\* the operations that take &self and return a new Cells or StructuredCells
Transformations == {"sorted", "filter", "dedup", "projection", "slice"}

\* the caller truncates the Cells it was returned, which it owns: the
\* receiver of the transformation is another value
TruncateResult ==
    /\ op \in Transformations
    /\ out.tag \in {"Ok", "Some"}
    /\ \E n \in 0..1 :
        /\ op' = "result_truncated"
        /\ arg' = n
        /\ out' = IF op = "slice"
                  THEN Ok([dimensions |-> out.val.dimensions,
                           cells |-> truncate(out.val.cells, n)])
                  ELSE Ok(truncate(out.val, n))
        /\ UNCHANGED <<cells, keys, before, dimensions, slices>>

NextFrame ==
    \/ Reuse
    \/ Sorted
    \/ Filter
    \/ Dedup
    \/ Projection
    \/ Slice
    \/ TruncateResult

SpecFrame == InitSlice /\ [][NextFrame]_vars

\* ------------------------------------------------------------ C24
\* C24: filter, dedup, projection, sorted and slice leave their receiver as
\* it was, field names, row count and every value (and the dimensions of a
\* StructuredCells), and so does a later truncation of what they returned
C24_ReceiverUnchanged ==
    [][op' \in Transformations \cup {"result_truncated"} =>
          cells' = cells /\ dimensions' = dimensions]_vars

\* sorted has returned rows in another order than the receiver's
C24_Witness ==
    /\ op = "sorted"
    /\ len(cells) >= 3
    /\ out.val # cells
    /\ cells = before

\* a slice that kept rows has been truncated to no rows; the receiver has
\* its rows
C24_WitnessTruncated ==
    /\ op = "result_truncated"
    /\ slices # <<>>
    /\ arg = 0
    /\ len(cells) >= 2
    /\ cells = before

\* ------------------------------------------------------------ C25
\* C25: after truncate(n) every field has min(N, n) rows, N being the row
\* count before, and they are the first min(N, n) rows it had; when n >= N
\* the receiver is as it was
C25_TruncateKeepsPrefix ==
    op = "truncate" =>
        LET N == len(before)
            kept == IF arg < N THEN arg ELSE N
        IN /\ DOMAIN cells = DOMAIN before
           /\ \A f \in DOMAIN cells :
               /\ Len(cells[f]) = kept
               /\ \A i \in 1..kept : cells[f][i] = before[f][i]
           /\ (arg >= N => cells = before)

\* three rows are cut to two, and the row dropped differs from the first
C25_Witness ==
    /\ op = "truncate"
    /\ arg = 2
    /\ DOMAIN before = {"x", "y"}
    /\ before["x"] = <<0, 1, 1>>
    /\ cells["x"] = <<0, 1>>
    /\ Len(cells["y"]) = 2

\* a length beyond the row count changes nothing
C25_WitnessNoOp ==
    /\ op = "truncate"
    /\ arg = MaxLen + 1
    /\ len(before) >= 2
    /\ cells = before

\* --------------------------------- state machine of dedup, then count
\* cells.dedup(keys).count_distinct(keys)
DedupCountDistinct ==
    /\ op = "idle"
    /\ \E ks \in KeyLists(cells) :
        /\ op' = "dedup_count_distinct"
        /\ keys' = ks
        /\ before' = cells
        /\ out' = Ok([dedup |-> dedup(cells, ks),
                      count |-> count_distinct(dedup(cells, ks), ks)])
        /\ UNCHANGED <<cells, dimensions, slices, arg>>

NextDedupCount ==
    \/ Reuse
    \/ DedupCountDistinct

SpecDedupCount == Init /\ [][NextDedupCount]_vars

CountAndGroups ==
    /\ op = "idle"
    /\ \E ks \in KeyLists(cells) :
        /\ op' = "count_and_groups"
        /\ keys' = ks
        /\ before' = cells
        /\ out' = IF count_distinct(cells, ks) = Panic \/ ks = <<>> THEN Panic
                  ELSE Ok([count |-> count_distinct(cells, ks).val,
                           sorted_groups |->
                               identify_groups(
                                   sorted(projection(cells, ks).val, ks), ks),
                           groups |-> identify_groups(cells, ks)])
        /\ UNCHANGED <<cells, dimensions, slices, arg>>

NextCountGroups ==
    \/ Reuse
    \/ CountAndGroups

SpecCountGroups == Init /\ [][NextCountGroups]_vars

\* ------------------------------------------------------------ C27
\* C27: for two rows or more and a non-empty key list, count_distinct is the
\* number of intervals identify_groups finds in the projection on the keys
\* sorted by the keys; identify_groups of the receiver as it stands never
\* finds fewer intervals than that
C27_CountIsSortedGroups ==
    (op = "count_and_groups" /\ len(before) >= 2 /\ keys # <<>>) =>
        /\ out.tag = "Ok"
        /\ out.val.count = Len(out.val.sorted_groups.val) - 1
        /\ out.val.count <= Len(out.val.groups.val) - 1

\* rows not sorted by the key: three runs of two distinct values
C27_Witness ==
    /\ op = "count_and_groups"
    /\ keys = <<"x">>
    /\ before["x"] = <<1, 0, 1>>
    /\ out.val.count = 2
    /\ out.val.sorted_groups = Some(<<0, 1, 3>>)
    /\ out.val.groups = Some(<<0, 1, 2, 3>>)

\* ---------------------------------- state machine of the comparator
\* (cells.index_comparator(keys))(&l, &r), as is_sorted, sort and dedup
\* call it on two rows of the receiver
Compare ==
    /\ op = "idle"
    /\ \E ks \in KeyLists(cells), l \in 0..(len(cells) - 1), r \in 0..(len(cells) - 1) :
        /\ op' = "compare"
        /\ keys' = ks
        /\ arg' = [l |-> l, r |-> r]
        /\ before' = cells
        /\ out' = Ok(index_comparator(cells, ks, l, r))
        /\ UNCHANGED <<cells, dimensions, slices>>

NextCompare ==
    \/ Reuse
    \/ Compare

SpecCompare == Init /\ [][NextCompare]_vars

\* ------------------------------------------------------------ C28
\* row l is not after row r
NotGreater(c, ks, l, r) == index_comparator(c, ks, l, r) # "Greater"

\* the positions of the key list on which rows l and r differ
DifferAt(c, ks, l, r) == {k \in 1..Len(ks) : At(c[ks[k]], l) # At(c[ks[k]], r)}

\* C28: the comparator is lexicographic in the order of the keys: the rows
\* compare as their values under the first key on which they differ, and
\* Equal when they differ on none, so always Equal for no key; it is
\* reflexive, transitive, and compares any two rows, one way round as the
\* reverse of the other
C28_ComparatorLexicographic ==
    op = "compare" =>
        LET l == arg.l
            r == arg.r
            d == DifferAt(before, keys, l, r)
        IN /\ IF d = {} THEN out = Ok("Equal")
              ELSE LET k == CHOOSE j \in d : \A i \in d : j <= i
                   IN out = Ok(IF At(before[keys[k]], l) < At(before[keys[k]], r)
                               THEN "Less" ELSE "Greater")
           /\ index_comparator(before, keys, l, l) = "Equal"
           /\ out.val \in {"Less", "Equal", "Greater"}
           /\ (out.val = "Less") = (index_comparator(before, keys, r, l) = "Greater")
           /\ (out.val = "Equal") = (index_comparator(before, keys, r, l) = "Equal")
           /\ \A m \in 0..(len(before) - 1) :
               NotGreater(before, keys, l, r) /\ NotGreater(before, keys, r, m)
                   => NotGreater(before, keys, l, m)

\* the rows tie on the first key and the second decides, against the order
\* of the rows under the keys reversed
C28_Witness ==
    /\ op = "compare"
    /\ keys = <<"x", "y">>
    /\ arg = [l |-> 0, r |-> 2]
    /\ At(before["x"], 0) = At(before["x"], 2)
    /\ At(before["y"], 0) > At(before["y"], 2)
    /\ out = Ok("Greater")

\* the first key decides although the second orders the rows the other way
C28_WitnessFirstKey ==
    /\ op = "compare"
    /\ keys = <<"x", "y">>
    /\ At(before["x"], arg.l) < At(before["x"], arg.r)
    /\ At(before["y"], arg.l) > At(before["y"], arg.r)
    /\ out = Ok("Less")

\* ------------------------------------ state machine of NextIndex
\* NextIndex::new(dimensions, ranges), and no index taken yet; the indices
\* the caller has been given are kept next to the cursors
InitIter ==
    /\ dimensions \in PositiveDimensions
    /\ slices \in AnyRanges(dimensions)
    /\ cells = StructuredRows(dimensions)
    /\ op = "new"
    /\ keys = <<>>
    /\ arg = [cursors |-> next_index_new(slices), yielded |-> <<>>]
    /\ before = arg
    /\ out = None

\* <NextIndex as Iterator>::next: compute, advance, Some(index); None once
\* there are no cursors
IterNext ==
    /\ op \in {"new", "next"}
    /\ op' = "next"
    /\ before' = arg
    /\ IF arg.cursors.tag = "Some"
       THEN /\ out' = Some(compute(dimensions, arg.cursors.val))
            /\ arg' = [cursors |-> advance(slices, arg.cursors.val),
                       yielded |-> Append(arg.yielded,
                                          compute(dimensions, arg.cursors.val))]
       ELSE /\ out' = None
            /\ arg' = arg
    /\ UNCHANGED <<cells, keys, dimensions, slices>>

NextIter == IterNext

SpecIter == InitIter /\ [][NextIter]_vars

\* for_each calls next until it returns None
SpecIterLive == SpecIter /\ WF_vars(IterNext)

\* ------------------------------------------------------------ C30
\* every range has a row and ends within its dimension
NonEmptyInBounds ==
    \A d \in 1..Len(slices) :
        slices[d].start < slices[d].end /\ slices[d].end <= dimensions[d]

\* what holds of the indices given out so far
IterSafe ==
    LET y == arg.yielded
        flat == {FlatIndex(dimensions, co, 1) : co \in Coordinates(slices)}
    IN /\ NonEmptyInBounds =>
           /\ \A i \in 1..Len(y) : y[i] < product(dimensions) /\ y[i] \in flat
           /\ \A i \in 1..(Len(y) - 1) : y[i] < y[i + 1]
           /\ (arg.cursors = None =>
                  /\ Len(y) = RangeVolume(slices)
                  /\ {y[i] : i \in 1..Len(y)} = flat)
           /\ (op = "next" /\ before.cursors # None =>
                  out = Some(FlatIndex(dimensions, before.cursors.val, 1)))
       /\ (op = "next" /\ before.cursors = None => out = None /\ arg = before)

\* C30: the iterator of slice comes to its end whatever the ranges; for
\* non-empty ranges inside the dimensions it gives out the flat index of
\* every coordinate of the cartesian product once, as many as the product of
\* the range lengths, in strictly increasing order and each below
\* product(dimensions); once the cursors are gone it returns None and
\* stays as it is
C30_NextIndexTerminates ==
    /\ <>(arg.cursors = None)
    /\ []IterSafe

\* dimensions [2, 3], ranges [0..2, 1..3]: the last dimension has carried
\* into the first and been reset to 1; four indices, then None
C30_Witness ==
    /\ op = "next"
    /\ dimensions = <<2, 3>>
    /\ slices = <<Range(0, 2), Range(1, 3)>>
    /\ arg.yielded = <<1, 2, 4, 5>>
    /\ arg.cursors = None
    /\ before.cursors = None
    /\ out = None

====
